---- MODULE Spec2Model ----
(***************************************************************************)
(* Model of scripts/chop_detection.py: detect_chop, the colour-based chop  *)
(* detector, its colour mask and its scoring block taken alone, and the    *)
(* batch and command-line code around it; and of the maintenance scripts   *)
(* standardize_all_extensions.py and restore_78_deleted_records.py.        *)
(*                                                                         *)
(* An image is described by its height, its width and the uniformly        *)
(* coloured connected regions that survive the morphological clean-up,     *)
(* each with its HSV colour and with the geometry cv2 reports for its      *)
(* outer contour: contourArea (kept doubled, area2, because the shoelace   *)
(* area of an integer polygon is a multiple of 1/2) and boundingRect       *)
(* (x, y, w, h).  Ratios are kept as exact fractions of integers; for the  *)
(* image sizes used here no quotient lies within a float rounding error of *)
(* a threshold, so the exact comparison is the comparison the code makes.  *)
(***************************************************************************)
EXTENDS Integers, Sequences, FiniteSets, TLC

VARIABLES
    pc,               \* where the running code stands
    image,            \* the argument of detect_chop
    result,           \* what detect_chop returned
    raised,           \* an exception has left the running function
    largest_contour,  \* the local largest_contour when detect_chop ended
    stderr,           \* the lines written to sys.stderr
    score_in,         \* a candidate handed to the scoring block
    score_out,        \* the locals the scoring block computed for it
    argv,             \* sys.argv[1:]
    stdin,            \* sys.stdin: a terminal, or what is piped in
    urls,             \* the argument of process_batch
    batch_i,          \* how many urls the loop of process_batch has taken
    fetched,          \* what the network answered to each download so far
    results,          \* the local results of process_batch
    stdout,           \* what the program printed to sys.stdout
    exit_status,      \* "running", or the exit status of the program
    hsv_px,           \* one pixel of hsv, as <<h, s, v>>
    mask_px,          \* mask1, mask2 and mask at that pixel
    r2,               \* the objects under original/ in the bucket, by filename
    db,               \* sample_images.image_url by row id
    r2_files,         \* the filenames listed in step 1
    files_to_rename,  \* the renames planned in step 2
    rename_i,         \* how many of them the loop of step 3 has taken
    renamed_count,
    failed_count,
    r2_answers,       \* how R2 answered each rename so far
    urls_to_update,   \* the rewrites planned in step 4
    update_i,         \* how many of them the loop of step 4 has taken
    updated_count,
    verification,     \* r2_standardized and db_standardized of step 5
    credentials,      \* SUPABASE_URL and SUPABASE_KEY are both set
    pork_samples,     \* how many rows of pork_samples carry each chop id
    sample_images,    \* the rows of sample_images
    restore_i,        \* how many study numbers the loop has taken
    restored_count,
    already_exists_count,
    not_found_count,
    errors,
    run_no,           \* 1 in the first run of the script, 2 in the second
    earlier_errors    \* the errors of the first run, once it has ended

detectVars == <<image, result, largest_contour>>
scoreVars == <<score_in, score_out>>
batchVars == <<argv, stdin, urls, batch_i, fetched, results, stdout, exit_status>>
maskVars == <<hsv_px, mask_px>>
stdVars == <<r2, db, r2_files, files_to_rename, rename_i, renamed_count, failed_count,
             r2_answers, urls_to_update, update_i, updated_count, verification>>
restoreVars == <<credentials, pork_samples, sample_images, restore_i, restored_count,
                 already_exists_count, not_found_count, errors, run_no, earlier_errors>>
toolVars == <<maskVars, stdVars, restoreVars>>
vars == <<pc, raised, stderr, detectVars, scoreVars, batchVars, toolVars>>

(* ------------------------------ bounds -------------------------------- *)

\* side of the square image; the wide and the tall image are 4 * Unit by Unit
Unit == 20
\* most regions in one image
MaxRegions == 2
\* most URLs on the command line or in the piped array
MaxUrls == 2
\* the scoring block alone: widths and heights up to ScoreSide, in images of
\* ScoreSide * ScoreSide and ScoreSide * (ScoreSide - 1) pixels
ScoreSide == 11
\* the colour mask alone: saturations and values this far around their
\* lower threshold, next to 0 and 255
MaskProbe == 1
\* most objects under original/ and most rows of sample_images
MaxObjects == 3
MaxRows == 2
\* how many of the deleted filenames the restore script is given
MaxStudies == 2

(* ------------------------- program constants -------------------------- *)

\* if area_ratio < 0.05 or area_ratio > 0.80, in percent
MinAreaPct == 5
MaxAreaPct == 80
\* margin_x = int(w * 0.05), in percent
MarginPct == 5
\* area_confidence = 1.0 - abs(0.4 - area_ratio) / 0.4, in percent
IdealAreaPct == 40
\* if 0.8 <= aspect_ratio <= 2.0, in tenths
AspectLoTenths == 8
AspectHiTenths == 20
\* 1.0 - abs(aspect_ratio - 1.4) / 2.0, in tenths
AspectIdealTenths == 14
AspectSpreadTenths == 20
\* round(confidence, 2) and round(area_ratio, 4) are held as integers:
\* hundredths and ten-thousandths
ConfidenceScale == 100
AreaRatioScale == 10000

lower_red1 == <<0, 30, 50>>
upper_red1 == <<20, 255, 255>>
lower_red2 == <<160, 30, 50>>
upper_red2 == <<180, 255, 255>>

(* ------------------------------ values -------------------------------- *)

\* Python's None
None == [py |-> "None"]

\* the upper clip forgotten: x2 = x + w + margin_x
MinUnclipped(a, b) == b
Min(a, b) == IF a <= b THEN a ELSE b
Max(a, b) == IF a >= b THEN a ELSE b
Abs(a) == IF a >= 0 THEN a ELSE 0 - a

(* ------------------------------ inputs -------------------------------- *)

Red == <<5, 200, 200>>
Pink == <<170, 120, 220>>
Blue == <<110, 200, 200>>
Colours == {Red, Pink, Blue}

Dims == {<<Unit, Unit>>, <<4 * Unit, Unit>>, <<Unit, 4 * Unit>>}

\* horizontal or vertical extents <<start, length>> inside a side of length n:
\* the whole side, the first half, the centred half, an inner stretch
Extents(n) ==
    {<<0, n>>, <<0, n \div 2>>, <<n \div 4, n \div 2>>, <<n \div 8, (3 * n) \div 8>>}

\* doubled areas at 0%, 3%, just under 5%, 5%, 40%, 80%, just over 80%, 90%
\* of an image of n pixels
AreaSamples(n) ==
    {0, (6 * n) \div 100, (n \div 10) - 1, n \div 10, (8 * n) \div 10,
     (16 * n) \div 10, ((16 * n) \div 10) + 1, (18 * n) \div 10}

\* a contour through pixel centres encloses at most (w-1)*(h-1)
Geometries(W, H) ==
    {g \in [x : {0}, y : {0}, w : {W}, h : {H}, area2 : AreaSamples(W * H)] :
        g.area2 <= 2 * (g.w - 1) * (g.h - 1)}
    \cup
    {[x |-> ex[1], w |-> ex[2], y |-> ey[1], h |-> ey[2], area2 |-> (W * H) \div 10] :
        <<ex, ey>> \in
            {p \in Extents(W) \X Extents(H) :
                (W * H) \div 10 <= 2 * (p[1][2] - 1) * (p[2][2] - 1)}}

Regions(W, H) ==
    {[hsv |-> c, x |-> g.x, y |-> g.y, w |-> g.w, h |-> g.h, area2 |-> g.area2] :
        c \in Colours, g \in Geometries(W, H)}

SeqsUpTo(S, n) == UNION {[1..k -> S] : k \in 0..n}

Rasters ==
    UNION {[kind : {"raster"}, height : {d[2]}, width : {d[1]},
            regions : SeqsUpTo(Regions(d[1], d[2]), MaxRegions)] : d \in Dims}

\* arguments cv2.cvtColor rejects: a 2-D array, an empty array, not an array
Malformed == {[kind |-> "gray2d"], [kind |-> "empty"], [kind |-> "notarray"]}

Images == {None} \cup Malformed \cup Rasters

(* ----------------------------- detect_chop ---------------------------- *)

\* cv2.inRange on one pixel
inRange(px, lower, upper) ==
    \A i \in 1..3 : lower[i] <= px[i] /\ px[i] <= upper[i]

\* one range from the lowest to the highest bound: every hue passes
maskAnyHue(px) == inRange(px, lower_red1, upper_red2)

\* mask = bitwise_or(mask1, mask2)
mask(px) == inRange(px, lower_red1, upper_red1) \/ inRange(px, lower_red2, upper_red2)

\* cv2.findContours on the cleaned mask, in region order
findContours(img) == SelectSeq(img.regions, LAMBDA r : mask(r.hsv))

\* the first contour found instead of the largest
firstContour(contours) == contours[1]

\* Python's max(contours, key=cv2.contourArea): the first of the maxima
RECURSIVE maxByArea(_)
maxByArea(contours) ==
    IF Len(contours) = 1 THEN contours[1]
    ELSE LET rest == maxByArea(Tail(contours))
         IN IF rest.area2 > contours[1].area2 THEN rest ELSE contours[1]

\* only the floor is checked
areaRejectedFloorOnly(area2, image_area) ==
    100 * area2 < MinAreaPct * 2 * image_area

\* the endpoints are rejected too: <= and >= for < and >
areaRejectedStrict(area2, image_area) ==
    \/ 100 * area2 <= MinAreaPct * 2 * image_area
    \/ 100 * area2 >= MaxAreaPct * 2 * image_area

\* area_ratio < 0.05 or area_ratio > 0.80, with area_ratio = area2 / (2 * image_area)
areaRejected(area2, image_area) ==
    \/ 100 * area2 < MinAreaPct * 2 * image_area
    \/ 100 * area2 > MaxAreaPct * 2 * image_area

\* the margin with its sign slipped
marginInward(w) == 0 - ((w * MarginPct) \div 100)

\* math.ceil for int
marginCeil(w) == ((w * MarginPct) + 99) \div 100

\* int(w * 0.05)
margin(w) == (w * MarginPct) \div 100

\* a fraction is a pair <<numerator, denominator>>, denominator > 0
RECURSIVE gcd(_, _)
gcd(a, b) == IF b = 0 THEN a ELSE gcd(b, a % b)

\* the same fraction in lowest terms
lowest(f) == LET g == gcd(Abs(f[1]), f[2]) IN <<f[1] \div g, f[2] \div g>>

\* max(0.0, min(1.0, f))
clamp01(f) == IF f[1] < 0 THEN <<0, 1>> ELSE IF f[1] > f[2] THEN <<1, 1>> ELSE f

\* truncation for rounding
roundDown(f, scale) == (f[1] * scale) \div f[2]

\* round(f * scale), ties to even.  At a tie Python rounds the float it
\* holds, which may lie on either side; on every input of this model that is
\* the even neighbour.
roundTo(f, scale) ==
    LET n == f[1] * scale
        q == n \div f[2]
        r == n % f[2]
    IN IF 2 * r < f[2] THEN q
       ELSE IF 2 * r > f[2] THEN q + 1
       ELSE IF q % 2 = 0 THEN q ELSE q + 1

\* area_ratio = area / image_area
area_ratio(area2, image_area) == <<area2, 2 * image_area>>

\* the clamp of line 101 left out
area_confidenceUnclamped(area2, image_area) ==
    LET ideal == IdealAreaPct * 2 * image_area
    IN lowest(<<ideal - Abs(ideal - 100 * area2), ideal>>)

\* 1.0 - abs(0.4 - area_ratio) / 0.4, then clamped to [0, 1]
area_confidence(area2, image_area) ==
    LET ideal == IdealAreaPct * 2 * image_area
    IN clamp01(lowest(<<ideal - Abs(ideal - 100 * area2), ideal>>))

\* w / h if h > 0 else 1.0
aspect_ratio(w, h) == IF h > 0 THEN <<w, h>> ELSE <<1, 1>>

\* the else branch without its max(0.0, ...)
aspect_confidenceUnclamped(w, h) ==
    LET ar == aspect_ratio(w, h)
        spread == AspectSpreadTenths * ar[2]
    IN IF AspectLoTenths * ar[2] <= 10 * ar[1] /\ 10 * ar[1] <= AspectHiTenths * ar[2]
       THEN <<1, 1>>
       ELSE lowest(<<spread - Abs(10 * ar[1] - AspectIdealTenths * ar[2]), spread>>)

\* the ends of the ideal range left out: 0.8 < aspect_ratio < 2.0
aspect_confidenceOpenRange(w, h) ==
    LET ar == aspect_ratio(w, h)
        spread == AspectSpreadTenths * ar[2]
    IN IF AspectLoTenths * ar[2] < 10 * ar[1] /\ 10 * ar[1] < AspectHiTenths * ar[2]
       THEN <<1, 1>>
       ELSE LET f == lowest(<<spread - Abs(10 * ar[1] - AspectIdealTenths * ar[2]),
                                spread>>)
            IN IF f[1] < 0 THEN <<0, 1>> ELSE f

\* 1.0 inside [0.8, 2.0], else max(0.0, 1.0 - abs(aspect_ratio - 1.4) / 2.0)
aspect_confidence(w, h) ==
    LET ar == aspect_ratio(w, h)
        spread == AspectSpreadTenths * ar[2]
    IN IF AspectLoTenths * ar[2] <= 10 * ar[1] /\ 10 * ar[1] <= AspectHiTenths * ar[2]
       THEN <<1, 1>>
       ELSE LET f == lowest(<<spread - Abs(10 * ar[1] - AspectIdealTenths * ar[2]),
                                spread>>)
            IN IF f[1] < 0 THEN <<0, 1>> ELSE f

\* the sum, not halved
confidenceSum(ac, sc) == lowest(<<ac[1] * sc[2] + sc[1] * ac[2], ac[2] * sc[2]>>)

\* (area_confidence + aspect_confidence) / 2.0
confidence(ac, sc) == lowest(<<ac[1] * sc[2] + sc[1] * ac[2], 2 * ac[2] * sc[2]>>)

\* the outcome of a call: what is returned, whether an exception left the
\* function, and the contour selected (None when none was)
Returned(value, contour) ==
    [ret |-> value, exc |-> FALSE, largest |-> contour, printed |-> FALSE]
Raising == [ret |-> None, exc |-> TRUE, largest |-> None, printed |-> FALSE]
\* except Exception as e: print(..., file=sys.stderr); return None
Caught == [ret |-> None, exc |-> FALSE, largest |-> None, printed |-> TRUE]

\* a rejected candidate reported as a zeroed box instead of None
tryBodyPlaceholder(img) ==
    IF img \in Malformed THEN Raising
    ELSE LET contours == findContours(img) IN
    IF Len(contours) = 0 THEN Returned(None, None)
    ELSE LET c == maxByArea(contours)
             image_area == img.height * img.width
         IN
    IF areaRejected(c.area2, image_area)
    THEN Returned([x1 |-> 0, y1 |-> 0, x2 |-> 0, y2 |-> 0,
                   confidence |-> 0, area_ratio |-> 0], c)
    ELSE Returned([x1 |-> Max(0, c.x - margin(c.w)),
                   y1 |-> Max(0, c.y - margin(c.h)),
                   x2 |-> Min(img.width, c.x + c.w + margin(c.w)),
                   y2 |-> Min(img.height, c.y + c.h + margin(c.h)),
                   confidence |->
                       roundTo(confidence(area_confidence(c.area2, image_area),
                                          aspect_confidence(c.w, c.h)),
                               ConfidenceScale),
                   area_ratio |->
                       roundTo(area_ratio(c.area2, image_area), AreaRatioScale)], c)

\* a candidate whose confidence is 0.0 turned away like one that failed the
\* area check
tryBodyConfidenceGate(img) ==
    IF img \in Malformed THEN Raising
    ELSE LET contours == findContours(img) IN
    IF Len(contours) = 0 THEN Returned(None, None)
    ELSE LET c == maxByArea(contours)
             image_area == img.height * img.width
             conf == roundTo(confidence(area_confidence(c.area2, image_area),
                                        aspect_confidence(c.w, c.h)),
                             ConfidenceScale)
         IN
    IF areaRejected(c.area2, image_area) \/ conf = 0 THEN Returned(None, c)
    ELSE Returned([x1 |-> Max(0, c.x - margin(c.w)),
                   y1 |-> Max(0, c.y - margin(c.h)),
                   x2 |-> Min(img.width, c.x + c.w + margin(c.w)),
                   y2 |-> Min(img.height, c.y + c.h + margin(c.h)),
                   confidence |-> conf,
                   area_ratio |->
                       roundTo(area_ratio(c.area2, image_area), AreaRatioScale)], c)

\* the aspect ratio taken from the returned box, x2 - x1 by y2 - y1
tryBodyScoresBox(img) ==
    IF img \in Malformed THEN Raising
    ELSE LET contours == findContours(img) IN
    IF Len(contours) = 0 THEN Returned(None, None)
    ELSE LET c == maxByArea(contours)
             image_area == img.height * img.width
             x1 == Max(0, c.x - margin(c.w))
             y1 == Max(0, c.y - margin(c.h))
             x2 == Min(img.width, c.x + c.w + margin(c.w))
             y2 == Min(img.height, c.y + c.h + margin(c.h))
         IN
    IF areaRejected(c.area2, image_area) THEN Returned(None, c)
    ELSE Returned([x1 |-> x1, y1 |-> y1, x2 |-> x2, y2 |-> y2,
                   confidence |->
                       roundTo(confidence(area_confidence(c.area2, image_area),
                                          aspect_confidence(x2 - x1, y2 - y1)),
                               ConfidenceScale),
                   area_ratio |->
                       roundTo(area_ratio(c.area2, image_area), AreaRatioScale)], c)

\* the body of the try block
tryBody(img) ==
    IF img \in Malformed THEN Raising
    ELSE LET contours == findContours(img) IN
    IF Len(contours) = 0 THEN Returned(None, None)
    ELSE LET c == maxByArea(contours)
             image_area == img.height * img.width
         IN
    IF areaRejected(c.area2, image_area) THEN Returned(None, c)
    ELSE Returned([x1 |-> Max(0, c.x - margin(c.w)),
                   y1 |-> Max(0, c.y - margin(c.h)),
                   x2 |-> Min(img.width, c.x + c.w + margin(c.w)),
                   y2 |-> Min(img.height, c.y + c.h + margin(c.h)),
                   confidence |->
                       roundTo(confidence(area_confidence(c.area2, image_area),
                                          aspect_confidence(c.w, c.h)),
                               ConfidenceScale),
                   area_ratio |->
                       roundTo(area_ratio(c.area2, image_area), AreaRatioScale)], c)

\* the body without its try/except
detect_chopUnguarded(img) ==
    IF img = None THEN Returned(None, None) ELSE tryBody(img)

\* a diagnostic printed whenever nothing is detected
detect_chopNoisy(img) ==
    IF img = None THEN Returned(None, None)
    ELSE LET out == tryBody(img) IN
         IF out.exc THEN Caught
         ELSE IF out.ret = None THEN [out EXCEPT !.printed = TRUE] ELSE out

\* except Exception: return None
detect_chop(img) ==
    IF img = None THEN Returned(None, None)
    ELSE LET out == tryBody(img) IN
         IF out.exc THEN Caught ELSE out

(* ------------------------------ actions ------------------------------- *)

\* print(f"Error detecting chop: {e}", file=sys.stderr)
DetectError == "Error detecting chop"

\* nothing of the detector has run
DetectIdle == image = None /\ result = None /\ largest_contour = None
\* nothing of the scoring block has run
ScoreIdle == score_in = None /\ score_out = None
\* the command-line program is not running
BatchIdle ==
    /\ argv = <<>>
    /\ stdin = None
    /\ urls = None
    /\ batch_i = 0
    /\ fetched = <<>>
    /\ results = <<>>
    /\ stdout = None
    /\ exit_status = "running"

\* no pixel is being masked
MaskIdle == hsv_px = None /\ mask_px = None
\* none of the other programs is running
\* standardize_all_extensions is not running
StdIdle ==
    /\ r2 = None
    /\ db = None
    /\ r2_files = <<>>
    /\ files_to_rename = <<>>
    /\ rename_i = 0
    /\ renamed_count = 0
    /\ failed_count = 0
    /\ r2_answers = <<>>
    /\ urls_to_update = <<>>
    /\ update_i = 0
    /\ updated_count = 0
    /\ verification = None
\* restore_78_deleted_records is not running
RestoreIdle ==
    /\ credentials = FALSE
    /\ pork_samples = None
    /\ sample_images = <<>>
    /\ restore_i = 0
    /\ restored_count = 0
    /\ already_exists_count = 0
    /\ not_found_count = 0
    /\ errors = <<>>
    /\ run_no = 0
    /\ earlier_errors = <<>>
ToolsIdle == MaskIdle /\ StdIdle /\ RestoreIdle

\* a caller holds an image and is about to call detect_chop(image)
Init ==
    /\ pc = "call"
    /\ image \in Images
    /\ result = None
    /\ raised = FALSE
    /\ largest_contour = None
    /\ stderr = <<>>
    /\ ScoreIdle
    /\ BatchIdle
    /\ ToolsIdle

\* the call runs to its end
DetectChop ==
    /\ pc = "call"
    /\ LET out == detect_chop(image) IN
        /\ result' = out.ret
        /\ raised' = out.exc
        /\ largest_contour' = out.largest
        /\ stderr' = IF out.printed THEN Append(stderr, DetectError) ELSE stderr
    /\ pc' = "done"
    /\ UNCHANGED <<image, scoreVars, batchVars, toolVars>>

Next == DetectChop

Spec == Init /\ [][Next]_vars

(* ----------------------- the scoring block alone ---------------------- *)

\* candidates for lines 82-113 and 121: a doubled contour area up to the
\* whole image, and a bounding rectangle w by h.  h = 0 is the case line 104
\* guards against; cv2.boundingRect itself gives h >= 1.
ScoreAreas == {ScoreSide * ScoreSide, ScoreSide * (ScoreSide - 1)}

ScoreInputs ==
    UNION {[area2 : 0..(2 * n), image_area : {n}, w : 1..ScoreSide, h : 0..ScoreSide] :
              n \in ScoreAreas}

\* the locals of detect_chop from the area gate to the return
score(in) ==
    LET ac == area_confidence(in.area2, in.image_area)
        sc == aspect_confidence(in.w, in.h)
    IN [accepted |-> ~areaRejected(in.area2, in.image_area),
        area_confidence |-> ac,
        aspect_confidence |-> sc,
        confidence |-> confidence(ac, sc),
        area_ratio |-> roundTo(area_ratio(in.area2, in.image_area), AreaRatioScale)]

InitScore ==
    /\ pc = "score"
    /\ score_in \in ScoreInputs
    /\ score_out = None
    /\ raised = FALSE
    /\ stderr = <<>>
    /\ DetectIdle
    /\ BatchIdle
    /\ ToolsIdle

Score ==
    /\ pc = "score"
    /\ score_out' = score(score_in)
    /\ pc' = "scored"
    /\ UNCHANGED <<score_in, raised, stderr, detectVars, batchVars, toolVars>>

NextScore == Score

SpecScore == InitScore /\ [][NextScore]_vars

(* ------------------- process_batch and the command line --------------- *)

Urls == {"https://r2.example/original/1.jpg", "https://r2.example/original/2.jpg"}

UrlLists == SeqsUpTo(Urls, MaxUrls)

\* what cv2.imdecode can give: a full-frame red region at 40% of each image
\* size (detected), one at 90% (rejected) and a blue one (no contour)
FullFrame(d, colour, area2) ==
    [kind |-> "raster", height |-> d[2], width |-> d[1],
     regions |-> <<[hsv |-> colour, x |-> 0, y |-> 0, w |-> d[1], h |-> d[2],
                    area2 |-> area2]>>]

BatchImages ==
    {FullFrame(d, Red, (8 * d[1] * d[2]) \div 10) : d \in Dims}
    \cup {FullFrame(<<Unit, Unit>>, Red, (18 * Unit * Unit) \div 10),
          FullFrame(<<Unit, Unit>>, Blue, (8 * Unit * Unit) \div 10)}

\* the answer to requests.get(url, timeout=10): an exception (connection
\* error, timeout, HTTP error status) or bytes, which cv2.imdecode turns
\* into an image or into None
Responses ==
    {[kind |-> "error", decoded |-> None], [kind |-> "bytes", decoded |-> None]}
    \cup {[kind |-> "bytes", decoded |-> img] : img \in BatchImages}

\* sys.stdin: a terminal, or piped text that is a JSON array, other JSON, or
\* no JSON at all
Stdins ==
    {[kind |-> "tty"], [kind |-> "invalid"], [kind |-> "json_other"]}
    \cup {[kind |-> "json_array", data |-> l] : l \in UrlLists}

\* print(f"Error downloading image from {url}: {e}", file=sys.stderr)
DownloadError == "Error downloading image"
\* print("Error: Expected JSON array of image URLs", file=sys.stderr)
NotArrayError == "Error: Expected JSON array of image URLs"
\* print(f"Error parsing JSON: {e}", file=sys.stderr)
ParseError == "Error parsing JSON"
\* the two usage lines
Usage == [usage |-> TRUE]

\* download_image without its try/except
download_imageUnguarded(url, resp) ==
    IF resp.kind = "error"
    THEN [ret |-> None, exc |-> TRUE, err |-> <<>>]
    ELSE [ret |-> resp.decoded, exc |-> FALSE, err |-> <<>>]

\* download_image: the image, or None after an exception or a failed decode
download_image(url, resp) ==
    IF resp.kind = "error"
    THEN [ret |-> None, exc |-> FALSE, err |-> <<DownloadError>>]
    ELSE [ret |-> resp.decoded, exc |-> FALSE, err |-> <<>>]

\* image.shape[0] taken for the width and image.shape[1] for the height
enrichSwapped(res, url, img) ==
    res @@ [image_url |-> url, width |-> img.height, height |-> img.width]

\* result['image_url'] = image_url; result['width'] = image.shape[1];
\* result['height'] = image.shape[0]
enrich(res, url, img) ==
    res @@ [image_url |-> url, width |-> img.width, height |-> img.height]

process_image_from_url(url, resp) ==
    LET dl == download_image(url, resp) IN
    IF dl.exc THEN [ret |-> None, exc |-> TRUE, err |-> dl.err]
    ELSE IF dl.ret = None THEN [ret |-> None, exc |-> FALSE, err |-> dl.err]
    ELSE LET out == detect_chop(dl.ret) IN
         [ret |-> IF out.ret # None THEN enrich(out.ret, url, dl.ret) ELSE None,
          exc |-> out.exc,
          err |-> IF out.printed THEN <<DetectError>> ELSE <<>>]

\* failed items left out of the list
batchEntrySkipFailed(url, res) ==
    IF res # None THEN <<res>> ELSE <<>>

\* what one turn of the loop appends to results
batchEntry(url, res) ==
    IF res # None THEN <<res>>
    ELSE <<[image_url |-> url, error |-> "Detection failed"]>>

InitBatch ==
    /\ pc = "main"
    /\ argv \in UrlLists
    /\ stdin \in Stdins
    /\ urls = None
    /\ batch_i = 0
    /\ fetched = <<>>
    /\ results = <<>>
    /\ stdout = None
    /\ exit_status = "running"
    /\ raised = FALSE
    /\ stderr = <<>>
    /\ DetectIdle
    /\ ScoreIdle
    /\ ToolsIdle

\* if len(sys.argv) < 2: usage, sys.exit(1)
MainUsage ==
    /\ pc = "main"
    /\ Len(argv) = 0
    /\ stdout' = Usage
    /\ exit_status' = "1"
    /\ pc' = "exit"
    /\ UNCHANGED <<argv, stdin, urls, batch_i, fetched, results, raised, stderr,
                   detectVars, scoreVars, toolVars>>

\* if not sys.stdin.isatty(): json.load(sys.stdin), a list goes to process_batch
MainStdin ==
    /\ pc = "main"
    /\ Len(argv) > 0
    /\ stdin.kind # "tty"
    /\ \/ /\ stdin.kind = "json_array"
          /\ urls' = stdin.data
          /\ pc' = "batch"
          /\ UNCHANGED <<stderr, exit_status>>
       \/ /\ stdin.kind = "json_other"
          /\ stderr' = Append(stderr, NotArrayError)
          /\ exit_status' = "1"
          /\ pc' = "exit"
          /\ UNCHANGED urls
       \/ /\ stdin.kind = "invalid"
          /\ stderr' = Append(stderr, ParseError)
          /\ exit_status' = "1"
          /\ pc' = "exit"
          /\ UNCHANGED urls
    /\ UNCHANGED <<argv, stdin, batch_i, fetched, results, stdout, raised,
                   detectVars, scoreVars, toolVars>>

\* else: process_batch(sys.argv[1:])
MainArgv ==
    /\ pc = "main"
    /\ Len(argv) > 0
    /\ stdin.kind = "tty"
    /\ urls' = argv
    /\ pc' = "batch"
    /\ UNCHANGED <<argv, stdin, batch_i, fetched, results, stdout, exit_status,
                   raised, stderr, detectVars, scoreVars, toolVars>>

\* one turn of: for url in image_urls
ProcessUrl(resp) ==
    /\ pc = "batch"
    /\ batch_i < Len(urls)
    /\ LET url == urls[batch_i + 1]
           out == process_image_from_url(url, resp)
       IN /\ fetched' = Append(fetched, resp)
          /\ stderr' = stderr \o out.err
          /\ batch_i' = batch_i + 1
          /\ IF out.exc
             THEN \* an uncaught exception ends the program with a traceback
                  /\ raised' = TRUE
                  /\ exit_status' = "1"
                  /\ pc' = "exit"
                  /\ UNCHANGED results
             ELSE /\ results' = results \o batchEntry(url, out.ret)
                  /\ UNCHANGED <<raised, exit_status, pc>>
    /\ UNCHANGED <<argv, stdin, urls, stdout, detectVars, scoreVars, toolVars>>

\* return results; print(json.dumps(results, indent=2))
PrintResults ==
    /\ pc = "batch"
    /\ batch_i = Len(urls)
    /\ stdout' = [json |-> results]
    /\ exit_status' = "0"
    /\ pc' = "exit"
    /\ UNCHANGED <<argv, stdin, urls, batch_i, fetched, results, raised, stderr,
                   detectVars, scoreVars, toolVars>>

NextBatch ==
    \/ MainUsage
    \/ MainStdin
    \/ MainArgv
    \/ \E resp \in Responses : ProcessUrl(resp)
    \/ PrintResults

SpecBatch == InitBatch /\ [][NextBatch]_vars

(* ------------------------ the colour mask alone ----------------------- *)

\* the pixels of hsv = cv2.cvtColor(image, cv2.COLOR_BGR2HSV) for an 8-bit
\* image: hue 0..179, saturation and value 0..255, sampled around the lower
\* thresholds
Channel(threshold) ==
    {0, 255} \cup ((threshold - MaskProbe)..(threshold + MaskProbe))

Pixels == (0..179) \X Channel(lower_red1[2]) \X Channel(lower_red1[3])

\* one element of cv2.inRange(hsv, lower, upper): 255 inside, 0 outside
inRangeByte(px, lower, upper) == IF inRange(px, lower, upper) THEN 255 ELSE 0

\* the masks combined with and
RECURSIVE bitwise_and(_, _)
bitwise_and(a, b) ==
    IF a = 0 \/ b = 0 THEN 0
    ELSE (IF a % 2 = 1 /\ b % 2 = 1 THEN 1 ELSE 0)
         + 2 * bitwise_and(a \div 2, b \div 2)

\* one element of cv2.bitwise_or(mask1, mask2), bit by bit
RECURSIVE bitwise_or(_, _)
bitwise_or(a, b) ==
    IF a = 0 /\ b = 0 THEN 0
    ELSE (IF a % 2 = 1 \/ b % 2 = 1 THEN 1 ELSE 0)
         + 2 * bitwise_or(a \div 2, b \div 2)

InitMask ==
    /\ pc = "inrange"
    /\ hsv_px \in Pixels
    /\ mask_px = None
    /\ raised = FALSE
    /\ stderr = <<>>
    /\ DetectIdle
    /\ ScoreIdle
    /\ BatchIdle
    /\ StdIdle
    /\ RestoreIdle

\* mask1, mask2 and mask = cv2.bitwise_or(mask1, mask2) at the pixel
ColourMask ==
    /\ pc = "inrange"
    /\ LET mask1 == inRangeByte(hsv_px, lower_red1, upper_red1)
           mask2 == inRangeByte(hsv_px, lower_red2, upper_red2)
       IN mask_px' = [mask1 |-> mask1, mask2 |-> mask2,
                      mask |-> bitwise_or(mask1, mask2)]
    /\ pc' = "masked"
    /\ UNCHANGED <<hsv_px, raised, stderr, detectVars, scoreVars, batchVars, stdVars, restoreVars>>

NextMask == ColourMask

SpecMask == InitMask /\ [][NextMask]_vars

(* ------------------- standardize_all_extensions.py -------------------- *)

\* STANDARD_EXTENSION = '.jpg'; a filename is held as the sequence of its
\* parts between dots, so the extension is kept without its dot
STANDARD_EXTENSION == "jpg"

\* filenames under original/, in the order list_objects_v2 gives them
\* (byte order of the keys): A.JPEG, A.JPG, A.jpg, B, B.JPG
FileOrder == <<<<"A", "JPEG">>, <<"A", "JPG">>, <<"A", "jpg">>, <<"B">>, <<"B", "JPG">>>>
Filenames == {FileOrder[i] : i \in 1..Len(FileOrder)}

\* a bucket holds each object under its filename; the object uploaded as f
\* is named by f
Buckets ==
    {[f \in S |-> f] : S \in {T \in SUBSET Filenames : Cardinality(T) <= MaxObjects}}

\* an image_url is the public prefix followed by a filename
Url(f) == [prefix |-> "R2_PUBLIC_URL/original", filename |-> f]
Tables == SeqsUpTo({Url(f) : f \in Filenames}, MaxRows)

\* what R2 does with one rename, and the database with one update
R2Answers == {"ok", "copy_fails", "delete_fails"}
DbAnswers == {"ok", "fails"}

\* '.' + filename.split('.')[-1] if '.' in filename else ''
current_ext(filename) == IF Len(filename) > 1 THEN filename[Len(filename)] ELSE ""

\* filename.rsplit('.', 1)[0]
study_number(filename) ==
    IF Len(filename) > 1 THEN SubSeq(filename, 1, Len(filename) - 1) ELSE filename

\* f"{study_number}{STANDARD_EXTENSION}"
new_filename(filename) == Append(study_number(filename), STANDARD_EXTENSION)

\* step 1: the filenames of the listing
listing(bucket) == SelectSeq(FileOrder, LAMBDA f : f \in DOMAIN bucket)

RECURSIVE planRenames(_)
\* step 2: one item for each listed file whose extension is not the standard
planRenames(files) ==
    IF files = <<>> THEN <<>>
    ELSE LET f == Head(files) IN
         (IF current_ext(f) # STANDARD_EXTENSION
          THEN <<[old_key |-> f, new_key |-> new_filename(f)]>>
          ELSE <<>>) \o planRenames(Tail(files))

put_object(bucket, key, obj) ==
    [k \in DOMAIN bucket \cup {key} |-> IF k = key THEN obj ELSE bucket[k]]
delete_object(bucket, key) == [k \in DOMAIN bucket \ {key} |-> bucket[k]]

\* the old key deleted before the copy is made
renameDeleteFirst(bucket, item, answer) ==
    IF item.old_key \notin DOMAIN bucket
    THEN [bucket |-> bucket, renamed |-> FALSE]
    ELSE IF answer = "delete_fails"
    THEN [bucket |-> bucket, renamed |-> FALSE]
    ELSE IF answer = "copy_fails"
    THEN [bucket |-> delete_object(bucket, item.old_key), renamed |-> FALSE]
    ELSE [bucket |-> delete_object(put_object(bucket, item.new_key, bucket[item.old_key]),
                                   item.old_key),
          renamed |-> TRUE]

\* the try block of step 3: copy_object to the new key, then delete_object
\* of the old key; either may raise
rename(bucket, item, answer) ==
    IF answer = "copy_fails" \/ item.old_key \notin DOMAIN bucket
    THEN [bucket |-> bucket, renamed |-> FALSE]
    ELSE LET copied == put_object(bucket, item.new_key, bucket[item.old_key]) IN
         IF answer = "delete_fails"
         THEN [bucket |-> copied, renamed |-> FALSE]
         ELSE [bucket |-> delete_object(copied, item.old_key), renamed |-> TRUE]

RECURSIVE planUpdates(_, _)
\* step 4: one item for each record whose URL does not end in the standard
\* extension; id is the row number, from first up
planUpdates(records, first) ==
    IF records = <<>> THEN <<>>
    ELSE LET filename == Head(records).filename IN
         (IF current_ext(filename) # STANDARD_EXTENSION
          THEN <<[id |-> first, old_url |-> Head(records),
                  new_url |-> Url(new_filename(filename))]>>
          ELSE <<>>) \o planUpdates(Tail(records), first + 1)

\* the extensions step 5 counts, 'none' for a name without a dot
extensions(filenames) ==
    {IF Len(f) > 1 THEN f[Len(f)] ELSE "none" : f \in filenames}

InitStd ==
    /\ pc = "step1"
    /\ r2 \in Buckets
    /\ db \in Tables
    /\ r2_files = <<>>
    /\ files_to_rename = <<>>
    /\ rename_i = 0
    /\ renamed_count = 0
    /\ failed_count = 0
    /\ r2_answers = <<>>
    /\ urls_to_update = <<>>
    /\ update_i = 0
    /\ updated_count = 0
    /\ verification = None
    /\ raised = FALSE
    /\ stderr = <<>>
    /\ DetectIdle
    /\ ScoreIdle
    /\ BatchIdle
    /\ MaskIdle
    /\ RestoreIdle

\* steps 1 and 2: list original/ and plan the renames
PlanRenames ==
    /\ pc = "step1"
    /\ r2_files' = listing(r2)
    /\ files_to_rename' = planRenames(listing(r2))
    /\ pc' = "step3"
    /\ UNCHANGED <<r2, db, rename_i, renamed_count, failed_count, r2_answers,
                   urls_to_update, update_i, updated_count, verification,
                   raised, stderr, detectVars, scoreVars, batchVars, maskVars, restoreVars>>

\* one turn of the loop of step 3
RenameFile(answer) ==
    /\ pc = "step3"
    /\ rename_i < Len(files_to_rename)
    /\ LET done == rename(r2, files_to_rename[rename_i + 1], answer) IN
        /\ r2' = done.bucket
        /\ renamed_count' = IF done.renamed THEN renamed_count + 1 ELSE renamed_count
        /\ failed_count' = IF done.renamed THEN failed_count ELSE failed_count + 1
    /\ r2_answers' = Append(r2_answers, answer)
    /\ rename_i' = rename_i + 1
    /\ UNCHANGED <<pc, db, r2_files, files_to_rename, urls_to_update, update_i,
                   updated_count, verification,
                   raised, stderr, detectVars, scoreVars, batchVars, maskVars, restoreVars>>

\* step 4 up to its loop: fetch the records, plan the rewrites; the
\* counters start again when there is something to rewrite
PlanUpdates ==
    /\ pc = "step3"
    /\ rename_i = Len(files_to_rename)
    /\ urls_to_update' = planUpdates(db, 1)
    /\ failed_count' = IF planUpdates(db, 1) # <<>> THEN 0 ELSE failed_count
    /\ pc' = "step4"
    /\ UNCHANGED <<r2, db, r2_files, files_to_rename, rename_i, renamed_count,
                   r2_answers, update_i, updated_count, verification,
                   raised, stderr, detectVars, scoreVars, batchVars, maskVars, restoreVars>>

\* one turn of the loop of step 4
UpdateUrl(answer) ==
    /\ pc = "step4"
    /\ update_i < Len(urls_to_update)
    /\ LET item == urls_to_update[update_i + 1] IN
        IF answer = "ok"
        THEN /\ db' = [db EXCEPT ![item.id] = item.new_url]
             /\ updated_count' = updated_count + 1
             /\ UNCHANGED failed_count
        ELSE /\ failed_count' = failed_count + 1
             /\ UNCHANGED <<db, updated_count>>
    /\ update_i' = update_i + 1
    /\ UNCHANGED <<pc, r2, r2_files, files_to_rename, rename_i, renamed_count,
                   r2_answers, urls_to_update, verification,
                   raised, stderr, detectVars, scoreVars, batchVars, maskVars, restoreVars>>

\* step 5: count the extensions again and report
Verify ==
    /\ pc = "step4"
    /\ update_i = Len(urls_to_update)
    /\ verification' =
          [r2_total |-> Cardinality(DOMAIN r2),
           r2_standardized |-> extensions(DOMAIN r2) = {STANDARD_EXTENSION},
           db_standardized |->
               extensions({db[i].filename : i \in 1..Len(db)}) = {STANDARD_EXTENSION}]
    /\ pc' = "finished"
    /\ UNCHANGED <<r2, db, r2_files, files_to_rename, rename_i, renamed_count,
                   failed_count, r2_answers, urls_to_update, update_i, updated_count,
                   raised, stderr, detectVars, scoreVars, batchVars, maskVars, restoreVars>>

NextStd ==
    \/ PlanRenames
    \/ \E answer \in R2Answers : RenameFile(answer)
    \/ PlanUpdates
    \/ \E answer \in DbAnswers : UpdateUrl(answer)
    \/ Verify

SpecStd == InitStd /\ [][NextStd]_vars

(* ------------------- restore_78_deleted_records.py --------------------- *)

\* the first MaxStudies of the deleted filenames: study number and extension
deleted_filenames == [i \in 1..MaxStudies |-> [stem |-> i, ext |-> "JPG"]]

\* filename.replace('.JPG', '') for each deleted filename
study_numbers_to_restore ==
    [i \in 1..MaxStudies |-> deleted_filenames[i].stem]

\* pork_samples: no row, one row or two rows with a given standardized_chop_id;
\* the id of a row is the chop id with the row's rank
PorkTables == [1..MaxStudies -> 0..2]
SampleIds == (1..MaxStudies) \X (1..2)
SampleIdOrder ==
    [i \in 1..(2 * MaxStudies) |-> <<((i - 1) \div 2) + 1, ((i - 1) % 2) + 1>>]

\* a row of sample_images as it was before the deletion, and as line 100
\* inserts it
OldRow(sample_id) ==
    [sample_id |-> sample_id, image_url |-> [study |-> sample_id[1], ext |-> "JPG"],
     image_type |-> "chop"]
NewRow(sample_id, study_num) ==
    [sample_id |-> sample_id, image_url |-> [study |-> study_num, ext |-> "JPEG"],
     image_type |-> "chop"]

\* sample_images before the run: rows for some of the samples that exist
ImageTables(pork) ==
    {SelectSeq([i \in 1..(2 * MaxStudies) |-> OldRow(SampleIdOrder[i])],
               LAMBDA row : row.sample_id \in S) :
        S \in SUBSET {id \in SampleIds : id[2] <= pork[id[1]]}}

\* what Supabase does in one turn of the loop: every query answers, or one
\* of them raises
SupabaseAnswers == {"ok", "raises"}

\* the rows of sample_images with this sample_id
existing_check(images, sample_id) ==
    SelectSeq(images, LAMBDA row : row.sample_id = sample_id)

\* the insert made without looking for an existing row
restoreNoCheck(pork, images, study_num, answer) ==
    IF answer = "raises" THEN [images |-> images, outcome |-> "error"]
    ELSE IF pork[study_num] = 0 THEN [images |-> images, outcome |-> "not_found"]
    ELSE [images |-> Append(images, NewRow(<<study_num, 1>>, study_num)),
          outcome |-> "restored"]

\* the body of the loop for one study number
restore(pork, images, study_num, answer) ==
    IF answer = "raises" THEN [images |-> images, outcome |-> "error"]
    ELSE IF pork[study_num] = 0 THEN [images |-> images, outcome |-> "not_found"]
    ELSE LET sample_id == <<study_num, 1>> IN
         IF Len(existing_check(images, sample_id)) > 0
         THEN [images |-> images, outcome |-> "already_exists"]
         ELSE [images |-> Append(images, NewRow(sample_id, study_num)),
               outcome |-> "restored"]

NotFoundError(study_num) == [message |-> "Study number not found", study |-> study_num]
RestoreError(study_num) == [message |-> "Error restoring", study |-> study_num]

InitRestore ==
    /\ pc = "restore"
    /\ credentials \in BOOLEAN
    /\ pork_samples \in PorkTables
    /\ sample_images \in ImageTables(pork_samples)
    /\ restore_i = 0
    /\ restored_count = 0
    /\ already_exists_count = 0
    /\ not_found_count = 0
    /\ errors = <<>>
    /\ run_no = 1
    /\ earlier_errors = <<>>
    /\ raised = FALSE
    /\ stderr = <<>>
    /\ DetectIdle
    /\ ScoreIdle
    /\ BatchIdle
    /\ MaskIdle
    /\ StdIdle

\* if not SUPABASE_URL or not SUPABASE_KEY: return
MissingCredentials ==
    /\ pc = "restore"
    /\ ~credentials
    /\ pc' = "returned"
    /\ UNCHANGED <<raised, stderr, detectVars, scoreVars, batchVars, maskVars, stdVars,
                   restoreVars>>

\* one turn of: for study_num in study_numbers_to_restore
RestoreOne(answer) ==
    /\ pc = "restore"
    /\ credentials
    /\ restore_i < Len(study_numbers_to_restore)
    /\ LET study_num == study_numbers_to_restore[restore_i + 1]
           done == restore(pork_samples, sample_images, study_num, answer)
       IN /\ sample_images' = done.images
          /\ restored_count' =
                 IF done.outcome = "restored" THEN restored_count + 1 ELSE restored_count
          /\ already_exists_count' =
                 IF done.outcome = "already_exists" THEN already_exists_count + 1
                 ELSE already_exists_count
          /\ not_found_count' =
                 IF done.outcome = "not_found" THEN not_found_count + 1
                 ELSE not_found_count
          /\ errors' =
                 IF done.outcome = "not_found" THEN Append(errors, NotFoundError(study_num))
                 ELSE IF done.outcome = "error" THEN Append(errors, RestoreError(study_num))
                 ELSE errors
    /\ restore_i' = restore_i + 1
    /\ UNCHANGED <<pc, credentials, pork_samples, run_no, earlier_errors,
                   raised, stderr, detectVars, scoreVars, batchVars, maskVars, stdVars>>

\* the results are printed and the function returns
RestoreReturn ==
    /\ pc = "restore"
    /\ credentials
    /\ restore_i = Len(study_numbers_to_restore)
    /\ pc' = "returned"
    /\ UNCHANGED <<raised, stderr, detectVars, scoreVars, batchVars, maskVars, stdVars,
                   restoreVars>>

\* the script is started once more, on the tables as the first run left them
RunAgain ==
    /\ pc = "returned"
    /\ credentials
    /\ run_no = 1
    /\ run_no' = 2
    /\ earlier_errors' = errors
    /\ restore_i' = 0
    /\ restored_count' = 0
    /\ already_exists_count' = 0
    /\ not_found_count' = 0
    /\ errors' = <<>>
    /\ pc' = "restore"
    /\ UNCHANGED <<credentials, pork_samples, sample_images,
                   raised, stderr, detectVars, scoreVars, batchVars, maskVars, stdVars>>

NextRestore ==
    \/ MissingCredentials
    \/ \E answer \in SupabaseAnswers : RestoreOne(answer)
    \/ RestoreReturn
    \/ RunAgain

SpecRestore == InitRestore /\ [][NextRestore]_vars

(* ------------------------------ claims -------------------------------- *)

\* the call has returned a populated result
Detected == pc = "done" /\ result # None

\* the call has ended on a decoded raster
DoneOnRaster == pc = "done" /\ image \in Rasters

\* the regions whose colour lies in one of the two red ranges: saturation
\* at least 30, value at least 50, hue in [0, 20] or in [160, 180]
IsRed(px) ==
    /\ px[2] >= 30 /\ px[2] <= 255
    /\ px[3] >= 50 /\ px[3] <= 255
    /\ (px[1] >= 0 /\ px[1] <= 20) \/ (px[1] >= 160 /\ px[1] <= 180)

RedRegions(img) == {i \in 1..Len(img.regions) : IsRed(img.regions[i].hsv)}

\* twice the largest contour area of the image, -1 when it has no contour
LargestArea2(img) ==
    IF RedRegions(img) = {} THEN 0 - 1
    ELSE CHOOSE a \in {img.regions[i].area2 : i \in RedRegions(img)} :
            \A i \in RedRegions(img) : img.regions[i].area2 <= a

\* largest contour area / (H * W) is at least 1/20 and at most 4/5
RatioInRange(img) ==
    /\ RedRegions(img) # {}
    /\ 10 * LargestArea2(img) >= img.height * img.width
    /\ 5 * LargestArea2(img) <= 8 * img.height * img.width

\* C1: detect_chop returns a result only if the area of the largest contour
\* divided by H*W is at least 0.05 and at most 0.80; below 0.05 or above 0.80
\* it returns None.
C1_AreaGate ==
    DoneOnRaster /\ RedRegions(image) # {} =>
        /\ result # None => RatioInRange(image)
        /\ ~RatioInRange(image) => result = None

\* a candidate covering 90% of the image was rejected
C1_Witness ==
    /\ DoneOnRaster
    /\ RedRegions(image) # {}
    /\ 10 * LargestArea2(image) = 18 * image.height * image.width
    /\ result = None

\* C2: for every Detected result on an image of width W and height H,
\* 0 <= x1 < x2 <= W and 0 <= y1 < y2 <= H.
C2_BoxInsideImage ==
    Detected =>
        /\ 0 <= result.x1 /\ result.x1 < result.x2 /\ result.x2 <= image.width
        /\ 0 <= result.y1 /\ result.y1 < result.y2 /\ result.y2 <= image.height

\* a detection whose expanded rectangle would pass the right and the top edge
C2_Witness ==
    /\ Detected
    /\ largest_contour.x + largest_contour.w = image.width
    /\ largest_contour.w >= 20
    /\ largest_contour.y = 0
    /\ largest_contour.h >= 20
    /\ result.x2 = image.width
    /\ result.y1 = 0

\* C3: no exception propagates out of detect_chop: a None image and any
\* processing error (malformed input, wrong shape or type) yield None.
C3_NoException ==
    /\ ~raised
    /\ pc = "done" /\ (image = None \/ image \in Malformed) => result = None

\* the call on an array of the wrong shape returned None
C3_Witness ==
    /\ pc = "done"
    /\ image = [kind |-> "gray2d"]
    /\ result = None
    /\ ~raised

\* C4: for every Detected result the confidence is within [0.0, 1.0] and the
\* area_ratio within [0, 1].
C4_ConfidenceRange ==
    Detected =>
        /\ 0 <= result.confidence /\ result.confidence <= ConfidenceScale
        /\ 0 <= result.area_ratio /\ result.area_ratio <= AreaRatioScale

\* a detection at the far end of both scores: area ratio 0.80 and a
\* rectangle four times as wide as high, confidence 0.0
C4_Witness ==
    /\ Detected
    /\ 5 * largest_contour.area2 = 8 * image.height * image.width
    /\ largest_contour.w >= 4 * largest_contour.h
    /\ result.confidence = 0

\* C5: whenever the mask has a contour and the largest contour's area ratio
\* lies in [0.05, 0.80], endpoints included, detect_chop returns a populated
\* result.
C5_AcceptsInRange ==
    DoneOnRaster /\ RatioInRange(image) => result # None

\* candidates at exactly 0.80 of the image are detected
C5_Witness ==
    /\ Detected
    /\ 5 * LargestArea2(image) = 8 * image.height * image.width

\* C6: the output is None or a result with exactly the six fields x1, y1, x2,
\* y2, confidence and area_ratio; never a partial result or a box of zero
\* extent.
C6_NoneOrComplete ==
    \/ result = None
    \/ /\ pc = "done"
       /\ DOMAIN result = {"x1", "y1", "x2", "y2", "confidence", "area_ratio"}
       /\ \A f \in DOMAIN result : result[f] \in Int
       /\ result.x2 - result.x1 >= largest_contour.w
       /\ result.y2 - result.y1 >= largest_contour.h
       /\ largest_contour.w > 0 /\ largest_contour.h > 0

\* a candidate was selected and then rejected: the call returned None
C6_Witness ==
    /\ pc = "done"
    /\ largest_contour # None
    /\ result = None

\* C7: if the cleaned mask has no contours detect_chop returns None; an
\* image with no pixel in the red/pink ranges gives no detection.
C7_NoContourNoDetection ==
    DoneOnRaster /\ RedRegions(image) = {} =>
        result = None /\ largest_contour = None

\* an image whose only regions are blue, of a size that is accepted when red
C7_Witness ==
    /\ DoneOnRaster
    /\ Len(image.regions) > 0
    /\ \A i \in 1..Len(image.regions) :
          /\ image.regions[i].hsv = Blue
          /\ 10 * image.regions[i].area2 >= image.height * image.width
          /\ 5 * image.regions[i].area2 <= 8 * image.height * image.width
    /\ result = None

\* C8: with several contours the candidate is a contour of maximum area, and
\* the result is the one this contour gives alone: the others are ignored.
C8_LargestContourOnly ==
    DoneOnRaster /\ RedRegions(image) # {} =>
        /\ \E i \in RedRegions(image) : image.regions[i] = largest_contour
        /\ \A i \in RedRegions(image) :
              image.regions[i].area2 <= largest_contour.area2
        /\ result = detect_chop([image EXCEPT !.regions = <<largest_contour>>]).ret

\* two contours, the second one larger and the first one acceptable too
C8_Witness ==
    /\ Detected
    /\ Len(image.regions) = 2
    /\ RedRegions(image) = {1, 2}
    /\ image.regions[1].area2 < image.regions[2].area2
    /\ 10 * image.regions[1].area2 >= image.height * image.width
    /\ image.regions[1].w # image.regions[2].w
    /\ largest_contour = image.regions[2]

\* C9: the returned box contains the raw bounding rectangle of the
\* candidate contour and never exceeds the image bounds.
C9_BoxContainsRect ==
    Detected =>
        /\ result.x1 <= largest_contour.x
        /\ result.y1 <= largest_contour.y
        /\ result.x2 >= largest_contour.x + largest_contour.w
        /\ result.y2 >= largest_contour.y + largest_contour.h
        /\ result.x1 >= 0 /\ result.y1 >= 0
        /\ result.x2 <= image.width /\ result.y2 <= image.height

\* a raw rectangle wide enough for a margin that touches the left edge
C9_Witness ==
    /\ Detected
    /\ largest_contour.x = 0
    /\ largest_contour.w >= 20
    /\ largest_contour.x + largest_contour.w < image.width
    /\ result.x1 = 0
    /\ result.x2 > largest_contour.x + largest_contour.w

\* the expansion by exactly 5% of w and of h stays inside the image
ExactMarginFits ==
    /\ 100 * largest_contour.x >= 5 * largest_contour.w
    /\ 100 * largest_contour.y >= 5 * largest_contour.h
    /\ 100 * (largest_contour.x + largest_contour.w) + 5 * largest_contour.w
          <= 100 * image.width
    /\ 100 * (largest_contour.y + largest_contour.h) + 5 * largest_contour.h
          <= 100 * image.height

\* C10 as stated: where the expansion is not clipped the margin added on
\* each side is 5% of the corresponding dimension, for every rectangle size.
C10_ExactFivePercent ==
    Detected /\ ExactMarginFits =>
        /\ 100 * (largest_contour.x - result.x1) = 5 * largest_contour.w
        /\ 100 * (result.x2 - (largest_contour.x + largest_contour.w))
              = 5 * largest_contour.w
        /\ 100 * (largest_contour.y - result.y1) = 5 * largest_contour.h
        /\ 100 * (result.y2 - (largest_contour.y + largest_contour.h))
              = 5 * largest_contour.h

\* the whole number of pixels in 5% of d: m with m <= d/20 < m + 1
IsWholeMargin(m, d) == 20 * m <= d /\ d < 20 * (m + 1)

\* C10: the box is the raw rectangle expanded on each side by 5% of its
\* width (left, right) and height (top, bottom) truncated to whole pixels,
\* then clipped to the image; unclipped, each side gains exactly that margin.
C10_TruncatedMargin ==
    Detected =>
        \E mx \in 0..largest_contour.w, my \in 0..largest_contour.h :
            /\ IsWholeMargin(mx, largest_contour.w)
            /\ IsWholeMargin(my, largest_contour.h)
            /\ result.x1 = IF largest_contour.x >= mx
                           THEN largest_contour.x - mx ELSE 0
            /\ result.y1 = IF largest_contour.y >= my
                           THEN largest_contour.y - my ELSE 0
            /\ result.x2 = IF largest_contour.x + largest_contour.w + mx <= image.width
                           THEN largest_contour.x + largest_contour.w + mx
                           ELSE image.width
            /\ result.y2 = IF largest_contour.y + largest_contour.h + my <= image.height
                           THEN largest_contour.y + largest_contour.h + my
                           ELSE image.height

\* an unclipped rectangle 30 wide: 5% is 1.5, the box gains 1 on each side
C10_Witness ==
    /\ Detected
    /\ ExactMarginFits
    /\ largest_contour.w = 30
    /\ largest_contour.x - result.x1 = 1
    /\ result.x2 - (largest_contour.x + largest_contour.w) = 1
    /\ largest_contour.h < 20
    /\ result.y1 = largest_contour.y
    /\ result.y2 = largest_contour.y + largest_contour.h

\* the scoring block has run
Scored == pc = "scored"

\* C11: area_confidence is clamp(1 - |0.4 - area_ratio| / 0.4, 0, 1): 1
\* exactly at area_ratio 0.4, linear on both sides, 0 at area_ratio 0 and at
\* 0.8 (and beyond).  With area_ratio = a / (2n): a / (0.8 n) up to 0.4,
\* 2 - a / (0.8 n) from 0.4 to 0.8.
C11_AreaConfidence ==
    Scored =>
        LET a == score_in.area2
            n == score_in.image_area
            ac == score_out.area_confidence
        IN /\ ac[2] > 0 /\ 0 <= ac[1] /\ ac[1] <= ac[2]
           /\ (ac[1] = ac[2]) <=> (5 * a = 4 * n)
           /\ 5 * a <= 4 * n => ac[1] * 4 * n = ac[2] * 5 * a
           /\ 4 * n <= 5 * a /\ 5 * a <= 8 * n =>
                 ac[1] * 4 * n = ac[2] * (8 * n - 5 * a)
           /\ 5 * a >= 8 * n => ac[1] = 0
           /\ a = 0 => ac[1] = 0

\* a candidate at exactly 0.4 of the image scores 1
C11_Witness ==
    /\ Scored
    /\ 5 * score_in.area2 = 4 * score_in.image_area
    /\ score_out.area_confidence = <<1, 1>>

\* C12: aspect_confidence is 1.0 when w / h is in [0.8, 2.0], ends included,
\* and clamp(1 - |w / h - 1.4| / 2.0, 0, 1) otherwise; the ratio counts as 1.0
\* when h is not positive.  Below 0.8 that is (3h + 5w) / 10h, above 2.0 it is
\* (17h - 5w) / 10h, and 0 from 3.4 on.
C12_AspectConfidence ==
    Scored =>
        LET w == score_in.w
            h == score_in.h
            sc == score_out.aspect_confidence
        IN /\ sc[2] > 0 /\ 0 <= sc[1] /\ sc[1] <= sc[2]
           /\ h <= 0 => sc[1] = sc[2]
           /\ h > 0 /\ 4 * h <= 5 * w /\ w <= 2 * h => sc[1] = sc[2]
           /\ h > 0 /\ 5 * w < 4 * h => sc[1] * 10 * h = sc[2] * (3 * h + 5 * w)
           /\ h > 0 /\ w > 2 * h /\ 5 * w <= 17 * h =>
                 sc[1] * 10 * h = sc[2] * (17 * h - 5 * w)
           /\ h > 0 /\ 5 * w > 17 * h => sc[1] = 0

\* a rectangle at exactly 0.8 scores 1
C12_Witness ==
    /\ Scored
    /\ score_in.h > 0
    /\ 5 * score_in.w = 4 * score_in.h
    /\ score_out.aspect_confidence = <<1, 1>>

\* v is a whole number nearest to f * scale
IsNearest(v, f, scale) ==
    LET n == f[1] * scale
        q == n \div f[2]
        r == n % f[2]
    IN /\ 2 * r < f[2] => v = q
       /\ 2 * r > f[2] => v = q + 1
       /\ 2 * r = f[2] => v \in {q, q + 1}

\* the mean of two fractions, in lowest terms
MeanOf(f, g) == lowest(<<f[1] * g[2] + g[1] * f[2], 2 * f[2] * g[2]>>)

\* C13: the returned confidence is (area_confidence + aspect_confidence) / 2
\* rounded to 2 decimal places; area_ratio 0.40 with an aspect ratio within
\* [0.8, 2.0] gives confidence 1.0.
C13_MeanConfidence ==
    Detected =>
        LET c == largest_contour
            n == image.height * image.width
            mean == MeanOf(area_confidence(c.area2, n), aspect_confidence(c.w, c.h))
        IN /\ IsNearest(result.confidence, mean, 100)
           /\ 5 * c.area2 = 4 * n /\ 4 * c.h <= 5 * c.w /\ c.w <= 2 * c.h =>
                 result.confidence = 100

\* a detection at area_ratio 0.40 with a square rectangle: confidence 1.0
C13_Witness ==
    /\ Detected
    /\ 5 * largest_contour.area2 = 4 * image.height * image.width
    /\ largest_contour.w = largest_contour.h
    /\ result.confidence = 100

\* C14: the area_ratio of a result is contour area / (H * W) rounded to 4
\* decimal places; the range check is made on the unrounded ratio and every
\* returned area_ratio lies within [0.05, 0.80].
C14_AreaRatioRounded ==
    Scored /\ score_out.accepted =>
        /\ IsNearest(score_out.area_ratio,
                     <<score_in.area2, 2 * score_in.image_area>>, 10000)
        /\ 500 <= score_out.area_ratio /\ score_out.area_ratio <= 8000
        /\ 10 * score_in.area2 >= score_in.image_area
        /\ 5 * score_in.area2 <= 8 * score_in.image_area

\* an accepted ratio that has more than 4 decimals and is rounded up
C14_Witness ==
    /\ Scored
    /\ score_out.accepted
    /\ 2 * ((10000 * score_in.area2) % (2 * score_in.image_area))
          > 2 * score_in.image_area
    /\ score_out.area_ratio * 2 * score_in.image_area > 10000 * score_in.area2

ErrorEntry(url) == [image_url |-> url, error |-> "Detection failed"]

\* process_batch has been called
\* the program printed the list process_batch returned
BatchPrinted == pc = "exit" /\ exit_status = "0"

\* process_batch has been called
InBatch == pc = "batch" \/ BatchPrinted

\* C17: process_batch returns exactly one entry per input URL, in input
\* order, entry i carrying URL i; a failed item yields the 'Detection failed'
\* entry and the loop goes on to the next URL.
C17_OneEntryPerUrl ==
    InBatch =>
        /\ ~raised
        /\ Len(results) = batch_i
        /\ batch_i <= Len(urls)
        /\ \A k \in 1..Len(results) :
              /\ results[k].image_url = urls[k]
              /\ results[k] = ErrorEntry(urls[k]) \/ "x1" \in DOMAIN results[k]
        /\ pc = "exit" =>
              /\ batch_i = Len(urls)
              /\ Len(results) = Len(urls)
              /\ stdout = [json |-> results]

\* the same URL twice: the first download failed, the second was detected
C17_Witness ==
    /\ InBatch
    /\ BatchPrinted
    /\ Len(urls) = 2
    /\ urls[1] = urls[2]
    /\ fetched[1].kind = "error"
    /\ results[1] = ErrorEntry(urls[1])
    /\ "x1" \in DOMAIN results[2]
    /\ results[2].image_url = urls[2]

DetectorFields == {"x1", "y1", "x2", "y2", "confidence", "area_ratio"}

\* C18: a successful entry carries the six detector fields, image_url equal
\* to the source URL, and width and height equal to the decoded image's W and
\* H, so x2 <= width and y2 <= height; a failed entry carries no detector
\* field.
C18_EnrichedEntry ==
    InBatch =>
        \A k \in 1..Len(results) :
            LET e == results[k] IN
            IF "error" \in DOMAIN e
            THEN DOMAIN e = {"image_url", "error"}
            ELSE /\ DOMAIN e = DetectorFields \cup {"image_url", "width", "height"}
                 /\ e.image_url = urls[k]
                 /\ fetched[k].decoded # None
                 /\ e.width = fetched[k].decoded.width
                 /\ e.height = fetched[k].decoded.height
                 /\ 0 <= e.x1 /\ e.x1 < e.x2 /\ e.x2 <= e.width
                 /\ 0 <= e.y1 /\ e.y1 < e.y2 /\ e.y2 <= e.height

\* an entry for the wide image, its box reaching the right edge
C18_Witness ==
    /\ InBatch
    /\ Len(results) > 0
    /\ "x1" \in DOMAIN results[1]
    /\ results[1].width = 4 * Unit
    /\ results[1].height = Unit
    /\ results[1].x2 = results[1].width

\* the download or the detection of this answer gives nothing: an
\* exception, bytes that do not decode, no contour, an area ratio out of range
GivesNothing(resp) ==
    \/ resp.kind = "error"
    \/ resp.decoded = None
    \/ ~RatioInRange(resp.decoded)

\* C19: two outcomes per image: a download failure, a decode failure, an
\* empty mask and an out-of-range area ratio all give None, reported with the
\* same 'Detection failed' entry, anything else an entry with a detection; no
\* exception propagates out of process_image_from_url.
C19_TwoOutcomes ==
    /\ pc \in {"main", "batch", "exit"} => ~raised
    /\ InBatch =>
          \A k \in 1..Len(results) :
              IF GivesNothing(fetched[k])
              THEN results[k] = ErrorEntry(urls[k])
              ELSE "x1" \in DOMAIN results[k] /\ "error" \notin DOMAIN results[k]

\* a failed download and a rejected candidate, reported alike
C19_Witness ==
    /\ InBatch
    /\ BatchPrinted
    /\ Len(results) = 2
    /\ fetched[1].kind = "error"
    /\ fetched[2].kind = "bytes"
    /\ fetched[2].decoded # None
    /\ RedRegions(fetched[2].decoded) # {}
    /\ ~RatioInRange(fetched[2].decoded)
    /\ results[1] = ErrorEntry(urls[1])
    /\ results[2] = ErrorEntry(urls[2])
    /\ stderr = <<DownloadError>>

\* C20: when a JSON array of URLs is piped on stdin, also with no URL on the
\* command line, the program runs process_batch on exactly that array and
\* prints the results as JSON.
C20_PipedArrayProcessed ==
    pc = "exit" /\ stdin.kind = "json_array" =>
        /\ exit_status = "0"
        /\ stdout = [json |-> results]
        /\ urls = stdin.data

\* C21: a pixel is in the raw colour mask exactly when its saturation is at
\* least 30, its value at least 50 and its hue in [0, 20] or [160, 180]; the
\* mask is the OR of the two range masks and holds only 0 and 255.
C21_ColourMask ==
    pc = "masked" =>
        /\ mask_px.mask \in {0, 255}
        /\ mask_px.mask = 255 <=> IsRed(hsv_px)
        /\ mask_px.mask = 255 <=> (mask_px.mask1 = 255 \/ mask_px.mask2 = 255)
        /\ mask_px.mask = 255 <=> mask(hsv_px)

\* a pixel of the upper hue range alone, at both lower thresholds
C21_Witness ==
    /\ pc = "masked"
    /\ hsv_px = <<160, 30, 50>>
    /\ mask_px = [mask1 |-> 0, mask2 |-> 255, mask |-> 255]

\* C22: each R2 rename is copy-then-delete: the old key is gone only when
\* the new key holds its object; when the copy raises the bucket is left as
\* it was, the file is counted as failed, and the loop goes on to the next
\* file until every planned file has been taken.
C22_CopyThenDelete ==
    [][/\ pc = "step3" /\ rename_i' = rename_i + 1 =>
            LET item == files_to_rename[rename_i + 1]
                answer == r2_answers'[rename_i + 1]
            IN /\ item.old_key \notin DOMAIN r2' =>
                      /\ item.new_key \in DOMAIN r2'
                      /\ r2'[item.new_key] = r2[item.old_key]
               /\ answer = "copy_fails" =>
                      /\ r2' = r2
                      /\ failed_count' = failed_count + 1
                      /\ renamed_count' = renamed_count
               /\ pc' = "step3"
       /\ pc = "step3" /\ pc' # "step3" => rename_i = Len(files_to_rename)]_vars

\* a copy failed, its file is still there, and the next file was renamed
C22_Witness ==
    /\ pc = "step3"
    /\ r2_answers = <<"copy_fails", "ok">>
    /\ files_to_rename[1].old_key \in DOMAIN r2
    /\ files_to_rename[1].new_key \notin DOMAIN r2
    /\ files_to_rename[2].old_key \notin DOMAIN r2
    /\ files_to_rename[2].new_key \in DOMAIN r2
    /\ failed_count = 1
    /\ renamed_count = 1

\* C26: the rename step loses no image: when no operation failed, the
\* bucket holds as many objects after the step as were listed before it, and
\* every object that was there is still there under some key.
C26_NoImageLost ==
    /\ pc \in {"step4", "finished"}
    /\ \A i \in 1..Len(r2_answers) : r2_answers[i] = "ok"
    => /\ Cardinality(DOMAIN r2) = Len(r2_files)
       /\ \A i \in 1..Len(r2_files) : \E k \in DOMAIN r2 : r2[k] = r2_files[i]

\* C27: when the script has finished, every image_url it rewrote names an
\* object that exists in the bucket, also when renames failed in step 3.
C27_RewrittenUrlExists ==
    pc = "finished" =>
        \A k \in 1..Len(urls_to_update) :
            LET item == urls_to_update[k] IN
            db[item.id] = item.new_url => item.new_url.filename \in DOMAIN r2

\* how many entries of errors come from the except clause
Exceptions(errs) ==
    Cardinality({i \in 1..Len(errs) : errs[i].message = "Error restoring"})

\* each study number taken so far is counted in exactly one of restored,
\* already-exists, not-found or error (the except clause), and a second run
\* that follows a run without an exception has inserted nothing
CountedOnce ==
    pc \in {"restore", "returned"} =>
        /\ restored_count + already_exists_count + not_found_count + Exceptions(errors)
              = restore_i
        /\ Len(errors) = not_found_count + Exceptions(errors)
        /\ pc = "returned" /\ credentials => restore_i = Len(study_numbers_to_restore)
        /\ run_no = 2 /\ Exceptions(earlier_errors) = 0 => restored_count = 0

\* a row is inserted into sample_images only for a sample_id that has no row
\* there, one row at a turn, and the turn is counted as restored
InsertsOnlyMissing ==
    sample_images' # sample_images =>
        /\ Len(sample_images') = Len(sample_images) + 1
        /\ SubSeq(sample_images', 1, Len(sample_images)) = sample_images
        /\ existing_check(sample_images,
                          sample_images'[Len(sample_images')].sample_id) = <<>>
        /\ restored_count' = restored_count + 1

\* C23: restore_deleted_records is idempotent: it never inserts a
\* sample_images row for a sample_id that already has one, so a second run
\* directly after a run without errors inserts nothing; and on every run each
\* listed study number is counted in exactly one of restored, already-exists,
\* not-found or error.
C23_Idempotent == []CountedOnce /\ [][InsertsOnlyMissing]_vars

\* a second run has ended after a first run that restored a record without
\* an exception: the record is found to exist and nothing is inserted
C23_Witness ==
    /\ pc = "returned"
    /\ run_no = 2
    /\ Exceptions(earlier_errors) = 0
    /\ \E i \in 1..Len(sample_images) : sample_images[i].image_url.ext = "JPEG"
    /\ restored_count = 0
    /\ already_exists_count > 0
    /\ not_found_count > 0

\* C24: confidence never gates a detection: detect_chop returns None only
\* for a None image, an internal error, no contour or an out-of-range area
\* ratio; a candidate that passes the area check is returned whatever its
\* confidence, 0.0 included.
C24_ConfidenceNeverGates ==
    pc = "done" =>
        /\ result = None =>
              \/ image = None
              \/ image \in Malformed
              \/ RedRegions(image) = {}
              \/ ~RatioInRange(image)
        /\ largest_contour # None
              /\ ~areaRejected(largest_contour.area2, image.height * image.width)
              => /\ result # None
                 /\ result.confidence =
                        roundTo(confidence(
                                    area_confidence(largest_contour.area2,
                                                    image.height * image.width),
                                    aspect_confidence(largest_contour.w,
                                                      largest_contour.h)),
                                ConfidenceScale)

\* a candidate at area ratio 0.80 and aspect ratio at least 3.4 scores 0 on
\* both counts and is returned with confidence 0.0
C24_Witness ==
    /\ Detected
    /\ area_confidence(largest_contour.area2, image.height * image.width) = <<0, 1>>
    /\ 10 * largest_contour.w >= 34 * largest_contour.h
    /\ aspect_confidence(largest_contour.w, largest_contour.h) = <<0, 1>>
    /\ result.area_ratio = 8000
    /\ result.confidence = 0

\* the image holding the candidate alone, moved to (x, y)
Moved(img, c, x, y) ==
    [img EXCEPT !.regions = <<[c EXCEPT !.x = x, !.y = y]>>]

\* positions of a w by h rectangle in the image: in the top left corner,
\* centred, in the bottom right corner
Positions(img, c) ==
    {<<0, 0>>,
     <<(img.width - c.w) \div 2, (img.height - c.h) \div 2>>,
     <<img.width - c.w, img.height - c.h>>}

\* C25: the confidence depends only on the unrounded area ratio and on the
\* width and height of the raw bounding rectangle: a candidate with the same
\* area, w and h gets the same confidence wherever it lies and however its
\* expanded box is clipped.
C25_ConfidenceIgnoresPosition ==
    Detected =>
        \A p \in Positions(image, largest_contour) :
            LET other == detect_chop(Moved(image, largest_contour, p[1], p[2])).ret
            IN /\ other # None
               /\ other.confidence = result.confidence
               /\ other.area_ratio = result.area_ratio

\* the same candidate elsewhere gets a box of another shape and the same
\* confidence, and the returned box is not in the proportion that was scored
C25_Witness ==
    /\ Detected
    /\ (result.x2 - result.x1) * largest_contour.h
           # (result.y2 - result.y1) * largest_contour.w
    /\ \E p \in Positions(image, largest_contour) :
           LET other == detect_chop(Moved(image, largest_contour, p[1], p[2])).ret
           IN /\ (other.x2 - other.x1) * (result.y2 - result.y1)
                     # (result.x2 - result.x1) * (other.y2 - other.y1)
              /\ other.confidence = result.confidence

====
